---- MODULE Spec2Model ----
(***************************************************************************)
(* Model of the Binance client factories and their resource caches         *)
(* (nautilus_trader/adapters/binance/factories.py) and of the Polymarket   *)
(* user-channel payload parsers                                            *)
(* (nautilus_trader/adapters/polymarket/schemas/user.py).                  *)
(***************************************************************************)
EXTENDS Integers, Sequences, FiniteSets, TLC

VARIABLES
    HTTP_CLIENTS,   \* factories.py:42  dict client_key -> BinanceHttpClient (instance id)
    http_clients,   \* every BinanceHttpClient ever constructed, in construction order
    spot_lru,       \* the lru_cache(1) of get_cached_binance_spot_instrument_provider
    futures_lru,    \* the lru_cache(1) of get_cached_binance_futures_instrument_provider
    providers,      \* every instrument provider ever constructed, in construction order
    environ,        \* os.environ restricted to the eight credential variables
    calls,          \* completed get_cached_binance_http_client calls: (key, secret, client)
    ret,            \* outcome of the operation executed last
    pc,             \* per thread: position inside get_cached_binance_http_client
    frame,          \* per thread: the locals of its running call
    payload,        \* the venue payload under parsing
    local_address,  \* the maker address of the local node
    report,         \* the outcome of the parser applied to payload
    fills           \* the FillReports produced so far, each with the payload it came from

vars == <<HTTP_CLIENTS, http_clients, spot_lru, futures_lru, providers, environ,
          calls, ret, pc, frame, payload, local_address, report, fills>>

cacheVars == <<HTTP_CLIENTS, http_clients, spot_lru, futures_lru, providers, environ,
               calls, ret>>
threadVars == <<pc, frame>>
parseVars == <<payload, local_address, report, fills>>

-----------------------------------------------------------------------------
(* Bounds of the model *)

\* most BinanceHttpClient constructions followed in one behaviour
MaxClients == 2
\* most instrument provider constructions followed in one behaviour
MaxProviders == 3

-----------------------------------------------------------------------------
(* Python values *)

\* Optional[str]: None is <<>>, a string s is <<s>>
None == <<>>
Some(s) == <<s>>

\* truth value of an Optional[str] operand of `or`: None and "" are falsy
Truthy(o) == o # None /\ o[1] # ""

\* a `or` b for Optional[str] operands
Or(a, b) == IF Truthy(a) THEN a ELSE b

-----------------------------------------------------------------------------
(* BinanceAccountType *)

BinanceAccountType == {"SPOT", "MARGIN", "FUTURES_USDT", "FUTURES_COIN"}

is_spot(account_type) == account_type = "SPOT"
is_margin(account_type) == account_type = "MARGIN"

-----------------------------------------------------------------------------
(* Credentials from the environment *)

EnvNames == {"BINANCE_API_KEY", "BINANCE_API_SECRET",
             "BINANCE_FUTURES_API_KEY", "BINANCE_FUTURES_API_SECRET",
             "BINANCE_TESTNET_API_KEY", "BINANCE_TESTNET_API_SECRET",
             "BINANCE_FUTURES_TESTNET_API_KEY", "BINANCE_FUTURES_TESTNET_API_SECRET"}

\* the variable _get_api_key reads
ApiKeyVar(account_type, is_testnet) ==
    IF is_testnet
    THEN IF is_spot(account_type) \/ is_margin(account_type)
         THEN "BINANCE_TESTNET_API_KEY"
         ELSE "BINANCE_FUTURES_TESTNET_API_KEY"
    ELSE IF is_spot(account_type) \/ is_margin(account_type)
         THEN "BINANCE_API_KEY"
         ELSE "BINANCE_FUTURES_API_KEY"

\* a secret lookup whose futures testnet branch names the live variable
ApiSecretVar_live_futures(account_type, is_testnet) ==
    IF is_spot(account_type) \/ is_margin(account_type)
    THEN IF is_testnet THEN "BINANCE_TESTNET_API_SECRET" ELSE "BINANCE_API_SECRET"
    ELSE "BINANCE_FUTURES_API_SECRET"

\* the variable _get_api_secret reads
ApiSecretVar(account_type, is_testnet) ==
    IF is_testnet
    THEN IF is_spot(account_type) \/ is_margin(account_type)
         THEN "BINANCE_TESTNET_API_SECRET"
         ELSE "BINANCE_FUTURES_TESTNET_API_SECRET"
    ELSE IF is_spot(account_type) \/ is_margin(account_type)
         THEN "BINANCE_API_SECRET"
         ELSE "BINANCE_FUTURES_API_SECRET"

\* a lookup that answers "" for a missing variable instead of raising
EnvLookupDefault(env, name) == IF env[name] = None THEN Some("") ELSE env[name]

\* os.environ[name]: the value, or None for the KeyError of a missing variable
EnvLookup(env, name) == env[name]

_get_api_key(env, account_type, is_testnet) ==
    EnvLookup(env, ApiKeyVar(account_type, is_testnet))

_get_api_secret(env, account_type, is_testnet) ==
    EnvLookup(env, ApiSecretVar(account_type, is_testnet))

-----------------------------------------------------------------------------
(* Venue/network resolver *)

\* a configuration: BinanceDataClientConfig / BinanceExecClientConfig
top_level_domain_com(config) == "com"

top_level_domain(config) == IF config.us THEN "us" ELSE "com"

Resolved(url) == [status |-> "ok", url |-> url]
Raised(error) == [status |-> error, url |-> ""]

\* a resolver with one test network for every account type
_get_http_base_url_one_testnet(config) ==
    IF config.testnet
    THEN CASE config.account_type \in BinanceAccountType ->
                  Resolved("https://testnet.binance.vision/api")
           [] OTHER -> Raised("RuntimeError")
    ELSE CASE config.account_type = "SPOT" ->
                  Resolved("https://api.binance." \o top_level_domain(config))
           [] config.account_type = "MARGIN" ->
                  Resolved("https://sapi.binance." \o top_level_domain(config))
           [] config.account_type = "FUTURES_USDT" ->
                  Resolved("https://fapi.binance." \o top_level_domain(config))
           [] config.account_type = "FUTURES_COIN" ->
                  Resolved("https://dapi.binance." \o top_level_domain(config))
           [] OTHER -> Raised("RuntimeError")

_get_http_base_url(config) ==
    IF config.testnet
    THEN CASE config.account_type \in {"SPOT", "MARGIN"} ->
                  Resolved("https://testnet.binance.vision/api")
           [] config.account_type = "FUTURES_USDT" ->
                  Resolved("https://testnet.binancefuture.com")
           [] config.account_type = "FUTURES_COIN" ->
                  Resolved("https://testnet.binancefuture.com")
           [] OTHER -> Raised("RuntimeError")
    ELSE CASE config.account_type = "SPOT" ->
                  Resolved("https://api.binance." \o top_level_domain(config))
           [] config.account_type = "MARGIN" ->
                  Resolved("https://sapi.binance." \o top_level_domain(config))
           [] config.account_type = "FUTURES_USDT" ->
                  Resolved("https://fapi.binance." \o top_level_domain(config))
           [] config.account_type = "FUTURES_COIN" ->
                  Resolved("https://dapi.binance." \o top_level_domain(config))
           [] OTHER -> Raised("RuntimeError")

\* a resolver that never looks at config.testnet
_get_ws_base_url_live_only(config) ==
    CASE config.account_type \in {"SPOT", "MARGIN"} ->
             Resolved("wss://stream.binance." \o top_level_domain(config) \o ":9443")
      [] config.account_type = "FUTURES_USDT" ->
             Resolved("wss://fstream.binance." \o top_level_domain(config))
      [] config.account_type = "FUTURES_COIN" ->
             Resolved("wss://dstream.binance." \o top_level_domain(config))
      [] OTHER -> Raised("RuntimeError")

_get_ws_base_url(config) ==
    IF config.testnet
    THEN CASE config.account_type \in {"SPOT", "MARGIN"} ->
                  Resolved("wss://testnet.binance.vision")
           [] config.account_type = "FUTURES_USDT" ->
                  Resolved("wss://stream.binancefuture.com")
           [] config.account_type = "FUTURES_COIN" -> Raised("ValueError")
           [] OTHER -> Raised("RuntimeError")
    ELSE CASE config.account_type \in {"SPOT", "MARGIN"} ->
                  Resolved("wss://stream.binance." \o top_level_domain(config) \o ":9443")
           [] config.account_type = "FUTURES_USDT" ->
                  Resolved("wss://fstream.binance." \o top_level_domain(config))
           [] config.account_type = "FUTURES_COIN" ->
                  Resolved("wss://dstream.binance." \o top_level_domain(config))
           [] OTHER -> Raised("RuntimeError")

-----------------------------------------------------------------------------
(* HTTP client cache *)

\* d[k] = v on a dict
DictSet(d, k, v) == [x \in DOMAIN d \cup {k} |-> IF x = k THEN v ELSE d[x]]

\* "|".join((key, secret))
client_key_of(key, secret) == key \o "|" \o secret

\* `client_key not in HTTP_CLIENTS`
NotCached(cache, client_key) == client_key \notin DOMAIN cache

\* BinanceHttpClient(loop, clock, logger, key, secret, base_url)
BinanceHttpClient(key, secret, base_url) == [key |-> key, secret |-> secret, base_url |-> base_url]

\* The whole of get_cached_binance_http_client on cache `cache`, the constructed
\* clients `heap` and environment `env`: the outcome, the cache and the
\* constructed clients after the call.
get_cached_binance_http_client(cache, heap, env, key, secret, account_type, base_url, is_testnet) ==
    LET k == Or(key, _get_api_key(env, account_type, is_testnet))
        s == Or(secret, _get_api_secret(env, account_type, is_testnet))
        \* the variables os.environ was asked for: line 88 runs only if line 87 returned
        env_read == (IF Truthy(key) THEN {} ELSE {ApiKeyVar(account_type, is_testnet)})
                    \cup (IF Truthy(secret) \/ k = None THEN {}
                          ELSE {ApiSecretVar(account_type, is_testnet)})
    IN  IF k = None \/ s = None
        THEN [status |-> "KeyError", key |-> "", secret |-> "", client_key |-> "",
              client |-> 0, constructed |-> FALSE, cache |-> cache, heap |-> heap,
              env_read |-> env_read]
        ELSE LET client_key == client_key_of(k[1], s[1])
                 miss == NotCached(cache, client_key)
                 heap2 == IF miss
                          THEN Append(heap, BinanceHttpClient(k[1], s[1], base_url))
                          ELSE heap
                 cache2 == IF miss THEN DictSet(cache, client_key, Len(heap2)) ELSE cache
             IN  [status |-> "ok", key |-> k[1], secret |-> s[1],
                  client_key |-> client_key, client |-> cache2[client_key],
                  constructed |-> miss, cache |-> cache2, heap |-> heap2,
                  env_read |-> env_read]

-----------------------------------------------------------------------------
(* Instrument provider caches *)

\* functools.lru_cache(maxsize) around a constructor: `lru` lists the cached
\* (args, result) entries, least recently used first; `heap` lists every object
\* the constructor has made. A hit moves the entry to the most recent place; a
\* miss constructs, stores, and drops the least recently used entry once more
\* than maxsize are held.
LruIndex(lru, args) == CHOOSE i \in DOMAIN lru : lru[i].args = args

LruHit(lru, args) == \E i \in DOMAIN lru : lru[i].args = args

LruWithout(lru, i) == SubSeq(lru, 1, i - 1) \o SubSeq(lru, i + 1, Len(lru))

lru_cache(maxsize, lru, heap, args, object) ==
    IF LruHit(lru, args)
    THEN LET i == LruIndex(lru, args)
         IN  [result |-> lru[i].result, constructed |-> FALSE, heap |-> heap,
              lru |-> Append(LruWithout(lru, i), lru[i])]
    ELSE LET heap2 == Append(heap, object)
             lru2 == Append(lru, [args |-> args, result |-> Len(heap2)])
         IN  [result |-> Len(heap2), constructed |-> TRUE, heap |-> heap2,
              lru |-> IF Len(lru2) > maxsize THEN Tail(lru2) ELSE lru2]

\* the argument of @lru_cache on both provider getters
LruMaxSize == 1

\* BinanceSpotInstrumentProvider(client, logger, account_type, config)
BinanceSpotInstrumentProvider(client, logger, account_type, config) ==
    [family |-> "spot", client |-> client, logger |-> logger,
     account_type |-> account_type, config |-> config]

\* BinanceFuturesInstrumentProvider(client, logger, account_type, config)
BinanceFuturesInstrumentProvider(client, logger, account_type, config) ==
    [family |-> "futures", client |-> client, logger |-> logger,
     account_type |-> account_type, config |-> config]

\* a spot provider cache keyed by account type alone
get_cached_binance_spot_instrument_provider_by_type(lru, heap, client, logger, account_type, config) ==
    lru_cache(LruMaxSize, lru, heap, <<account_type>>,
              BinanceSpotInstrumentProvider(client, logger, account_type, config))

get_cached_binance_spot_instrument_provider(lru, heap, client, logger, account_type, config) ==
    lru_cache(LruMaxSize, lru, heap, <<client, logger, account_type, config>>,
              BinanceSpotInstrumentProvider(client, logger, account_type, config))

get_cached_binance_futures_instrument_provider(lru, heap, client, logger, account_type, config) ==
    lru_cache(LruMaxSize, lru, heap, <<client, logger, account_type, config>>,
              BinanceFuturesInstrumentProvider(client, logger, account_type, config))

-----------------------------------------------------------------------------
(* Client factories *)

\* The outcome of a create() that raised `error`: nothing is changed.
CreateRaised(error) ==
    [status |-> error, client |-> 0, provider |-> 0, variant |-> "", account_type |-> "",
     base_url_ws |-> None, cache |-> HTTP_CLIENTS, heap |-> http_clients,
     spot_lru |-> spot_lru, futures_lru |-> futures_lru, providers |-> providers,
     key |-> "", secret |-> "", env_read |-> {}]

IsSpotOnly(account_type) == is_spot(account_type)

\* lines 235 and 338: config.account_type.is_spot or config.account_type.is_margin
IsSpotFamily(account_type) == is_spot(account_type) \/ is_margin(account_type)

\* a data factory that resolves the WebSocket URL only when it builds the client,
\* after the get-or-create of the HTTP client and of the provider
BinanceLiveDataClientFactory_create_late_ws(config, logger) ==
    LET base_url_http_default == _get_http_base_url(config)
        base_url_ws_default == _get_ws_base_url(config)
    IN  IF base_url_http_default.status # "ok" THEN CreateRaised(base_url_http_default.status)
        ELSE
        LET got == get_cached_binance_http_client(
                       HTTP_CLIENTS, http_clients, environ,
                       config.api_key, config.api_secret, config.account_type,
                       Or(config.base_url_http, Some(base_url_http_default.url)),
                       config.testnet)
        IN  IF got.status # "ok"
            THEN [CreateRaised(got.status) EXCEPT !.env_read = got.env_read]
            ELSE
            LET is_spot_family == IsSpotFamily(config.account_type)
                p == IF is_spot_family
                     THEN get_cached_binance_spot_instrument_provider(
                              spot_lru, providers, got.client, logger,
                              config.account_type, config.instrument_provider)
                     ELSE get_cached_binance_futures_instrument_provider(
                              futures_lru, providers, got.client, logger,
                              config.account_type, config.instrument_provider)
                made == [status |-> "ok", client |-> got.client, provider |-> p.result,
                         variant |-> IF is_spot_family THEN "BinanceSpotDataClient" ELSE "BinanceFuturesDataClient",
                         account_type |-> config.account_type,
                         base_url_ws |-> Or(config.base_url_ws, Some(base_url_ws_default.url)),
                         cache |-> got.cache, heap |-> got.heap,
                         spot_lru |-> IF is_spot_family THEN p.lru ELSE spot_lru,
                         futures_lru |-> IF is_spot_family THEN futures_lru ELSE p.lru,
                         providers |-> p.heap,
                         key |-> got.key, secret |-> got.secret, env_read |-> got.env_read]
            IN  IF base_url_ws_default.status = "ok" THEN made
                ELSE [made EXCEPT !.status = base_url_ws_default.status, !.client = 0,
                                  !.provider = 0, !.variant = "", !.account_type = "",
                                  !.base_url_ws = None]

\* BinanceLiveDataClientFactory.create
BinanceLiveDataClientFactory_create(config, logger) ==
    LET base_url_http_default == _get_http_base_url(config)
        base_url_ws_default == _get_ws_base_url(config)
    IN  IF base_url_http_default.status # "ok" THEN CreateRaised(base_url_http_default.status)
        ELSE IF base_url_ws_default.status # "ok" THEN CreateRaised(base_url_ws_default.status)
        ELSE
        LET got == get_cached_binance_http_client(
                       HTTP_CLIENTS, http_clients, environ,
                       config.api_key, config.api_secret, config.account_type,
                       Or(config.base_url_http, Some(base_url_http_default.url)),
                       config.testnet)
        IN  IF got.status # "ok"
            THEN [CreateRaised(got.status) EXCEPT !.env_read = got.env_read]
            ELSE
            LET is_spot_family == IsSpotFamily(config.account_type)
                p == IF is_spot_family
                     THEN get_cached_binance_spot_instrument_provider(
                              spot_lru, providers, got.client, logger,
                              config.account_type, config.instrument_provider)
                     ELSE get_cached_binance_futures_instrument_provider(
                              futures_lru, providers, got.client, logger,
                              config.account_type, config.instrument_provider)
            IN  [status |-> "ok", client |-> got.client, provider |-> p.result,
                 variant |-> IF is_spot_family THEN "BinanceSpotDataClient" ELSE "BinanceFuturesDataClient",
                 account_type |-> config.account_type,
                 base_url_ws |-> Or(config.base_url_ws, Some(base_url_ws_default.url)),
                 cache |-> got.cache, heap |-> got.heap,
                 spot_lru |-> IF is_spot_family THEN p.lru ELSE spot_lru,
                 futures_lru |-> IF is_spot_family THEN futures_lru ELSE p.lru,
                 providers |-> p.heap,
                 key |-> got.key, secret |-> got.secret, env_read |-> got.env_read]

\* an execution factory whose family test has drifted from the data factory's:
\* it asks is_spot alone
BinanceLiveExecClientFactory_create_drifted(config, logger) ==
    LET base_url_http_default == _get_http_base_url(config)
        base_url_ws_default == _get_ws_base_url(config)
    IN  IF base_url_http_default.status # "ok" THEN CreateRaised(base_url_http_default.status)
        ELSE IF base_url_ws_default.status # "ok" THEN CreateRaised(base_url_ws_default.status)
        ELSE
        LET got == get_cached_binance_http_client(
                       HTTP_CLIENTS, http_clients, environ,
                       config.api_key, config.api_secret, config.account_type,
                       Or(config.base_url_http, Some(base_url_http_default.url)),
                       config.testnet)
        IN  IF got.status # "ok"
            THEN [CreateRaised(got.status) EXCEPT !.env_read = got.env_read]
            ELSE
            LET is_spot_family == is_spot(config.account_type)
                p == IF is_spot_family
                     THEN get_cached_binance_spot_instrument_provider(
                              spot_lru, providers, got.client, logger,
                              config.account_type, config.instrument_provider)
                     ELSE get_cached_binance_futures_instrument_provider(
                              futures_lru, providers, got.client, logger,
                              config.account_type, config.instrument_provider)
            IN  [status |-> "ok", client |-> got.client, provider |-> p.result,
                 variant |-> IF is_spot_family THEN "BinanceSpotExecutionClient" ELSE "BinanceFuturesExecutionClient",
                 account_type |-> config.account_type,
                 base_url_ws |-> Or(config.base_url_ws, Some(base_url_ws_default.url)),
                 cache |-> got.cache, heap |-> got.heap,
                 spot_lru |-> IF is_spot_family THEN p.lru ELSE spot_lru,
                 futures_lru |-> IF is_spot_family THEN futures_lru ELSE p.lru,
                 providers |-> p.heap,
                 key |-> got.key, secret |-> got.secret, env_read |-> got.env_read]

\* BinanceLiveExecClientFactory.create
BinanceLiveExecClientFactory_create(config, logger) ==
    LET base_url_http_default == _get_http_base_url(config)
        base_url_ws_default == _get_ws_base_url(config)
    IN  IF base_url_http_default.status # "ok" THEN CreateRaised(base_url_http_default.status)
        ELSE IF base_url_ws_default.status # "ok" THEN CreateRaised(base_url_ws_default.status)
        ELSE
        LET got == get_cached_binance_http_client(
                       HTTP_CLIENTS, http_clients, environ,
                       config.api_key, config.api_secret, config.account_type,
                       Or(config.base_url_http, Some(base_url_http_default.url)),
                       config.testnet)
        IN  IF got.status # "ok"
            THEN [CreateRaised(got.status) EXCEPT !.env_read = got.env_read]
            ELSE
            LET is_spot_family == IsSpotFamily(config.account_type)
                p == IF is_spot_family
                     THEN get_cached_binance_spot_instrument_provider(
                              spot_lru, providers, got.client, logger,
                              config.account_type, config.instrument_provider)
                     ELSE get_cached_binance_futures_instrument_provider(
                              futures_lru, providers, got.client, logger,
                              config.account_type, config.instrument_provider)
            IN  [status |-> "ok", client |-> got.client, provider |-> p.result,
                 variant |-> IF is_spot_family THEN "BinanceSpotExecutionClient" ELSE "BinanceFuturesExecutionClient",
                 account_type |-> config.account_type,
                 base_url_ws |-> Or(config.base_url_ws, Some(base_url_ws_default.url)),
                 cache |-> got.cache, heap |-> got.heap,
                 spot_lru |-> IF is_spot_family THEN p.lru ELSE spot_lru,
                 futures_lru |-> IF is_spot_family THEN futures_lru ELSE p.lru,
                 providers |-> p.heap,
                 key |-> got.key, secret |-> got.secret, env_read |-> got.env_read]

-----------------------------------------------------------------------------
(* Inputs of the cache operations *)

\* API keys and secrets the callers pass; "a|a" holds the separator of client_key
CredStrings == {"a", "a|a"}
OptCreds == {None} \cup {Some(c) : c \in CredStrings}

\* what a credential variable holds when it is set
EnvValue(name) == "a"

\* the environments a process starts in: which credential variables are set
EnvPresent == {{}, EnvNames,
               {"BINANCE_API_KEY", "BINANCE_API_SECRET"},
               {"BINANCE_API_KEY", "BINANCE_FUTURES_API_SECRET"},
               {"BINANCE_TESTNET_API_SECRET", "BINANCE_FUTURES_TESTNET_API_KEY"},
               EnvNames \ {"BINANCE_API_SECRET"}}

Environment(present) == [n \in EnvNames |-> IF n \in present THEN Some(EnvValue(n)) ELSE None]

Loggers == {"logger1", "logger2"}
InstrumentProviderConfigs == {"load_all", "load_ids"}
OptUrlHttp == {None, Some("https://override")}
OptUrlWs == {None, Some("wss://override")}

\* every configuration of a factory call
AllConfigs ==
    [account_type : BinanceAccountType, testnet : BOOLEAN, us : BOOLEAN,
     api_key : OptCreds, api_secret : OptCreds,
     base_url_http : OptUrlHttp, base_url_ws : OptUrlWs,
     instrument_provider : InstrumentProviderConfigs]

\* the configurations the registry specification calls create() with: every
\* credential choice, on the live spot market
Configs ==
    {c \in AllConfigs : /\ c.account_type = "SPOT"
                        /\ ~c.testnet /\ ~c.us
                        /\ c.base_url_http = None /\ c.base_url_ws = None
                        /\ c.instrument_provider = "load_all"}

-----------------------------------------------------------------------------
(* Idle values of the variables a specification leaves alone *)

\* the configuration recorded with an outcome that had none
NoConfig ==
    [account_type |-> "", testnet |-> FALSE, us |-> FALSE, api_key |-> None,
     api_secret |-> None, base_url_http |-> None, base_url_ws |-> None,
     instrument_provider |-> ""]

NoRet == [op |-> "none", status |-> "none", client |-> 0, provider |-> 0,
          config |-> NoConfig, url |-> "", variant |-> "", account_type |-> "",
          base_url_ws |-> None, key |-> None, secret |-> None, env_read |-> {}]
NoReport == [status |-> "none"]
NoPayload == [kind |-> "none"]

ThreadsIdle == pc = <<>> /\ frame = <<>>
ParserIdle == payload = NoPayload /\ local_address = "" /\ report = NoReport /\ fills = <<>>

CacheInit ==
    /\ HTTP_CLIENTS = [k \in {} |-> 0]
    /\ http_clients = <<>>
    /\ spot_lru = <<>>
    /\ futures_lru = <<>>
    /\ providers = <<>>
    /\ calls = {}
    /\ ret = NoRet

-----------------------------------------------------------------------------
(* Operations on the caches, one sequential call each *)

\* a direct call of get_cached_binance_http_client
GetHttpClient(key, secret, account_type, base_url, is_testnet) ==
    LET got == get_cached_binance_http_client(HTTP_CLIENTS, http_clients, environ,
                                              key, secret, account_type, base_url, is_testnet)
    IN  /\ Len(got.heap) <= MaxClients
        /\ HTTP_CLIENTS' = got.cache
        /\ http_clients' = got.heap
        /\ calls' = IF got.status = "ok"
                    THEN calls \cup {[key |-> got.key, secret |-> got.secret,
                                      client |-> got.client]}
                    ELSE calls
        /\ ret' = [NoRet EXCEPT !.op = "get_cached_binance_http_client",
                                !.status = got.status, !.client = got.client,
                                !.key = key, !.secret = secret,
                                !.config = [NoConfig EXCEPT !.account_type = account_type,
                                                            !.testnet = is_testnet,
                                                            !.api_key = key,
                                                            !.api_secret = secret],
                                !.env_read = got.env_read]
        /\ UNCHANGED <<spot_lru, futures_lru, providers, environ>>
        /\ UNCHANGED <<threadVars, parseVars>>

\* the state after a create() whose outcome is `made`
Created(op, config, made) ==
    /\ Len(made.heap) <= MaxClients
    /\ Len(made.providers) <= MaxProviders
    /\ HTTP_CLIENTS' = made.cache
    /\ http_clients' = made.heap
    /\ spot_lru' = made.spot_lru
    /\ futures_lru' = made.futures_lru
    /\ providers' = made.providers
    /\ calls' = IF made.status = "ok"
                THEN calls \cup {[key |-> made.key, secret |-> made.secret,
                                  client |-> made.client]}
                ELSE calls
    /\ ret' = [NoRet EXCEPT !.op = op, !.status = made.status, !.client = made.client,
                            !.provider = made.provider, !.config = config,
                            !.variant = made.variant, !.account_type = made.account_type,
                            !.base_url_ws = made.base_url_ws,
                            !.key = config.api_key, !.secret = config.api_secret,
                            !.env_read = made.env_read]
    /\ UNCHANGED environ
    /\ UNCHANGED <<threadVars, parseVars>>

DataCreate(config, logger) ==
    Created("BinanceLiveDataClientFactory.create", config,
            BinanceLiveDataClientFactory_create(config, logger))

ExecCreate(config, logger) ==
    Created("BinanceLiveExecClientFactory.create", config,
            BinanceLiveExecClientFactory_create(config, logger))

\* The registry and the factories, in a process whose environment holds every
\* credential variable.
Init ==
    /\ CacheInit
    /\ environ = Environment(EnvNames)
    /\ ThreadsIdle
    /\ ParserIdle

Next ==
    \/ \E key \in OptCreds, secret \in OptCreds, account_type \in BinanceAccountType,
          is_testnet \in BOOLEAN :
           GetHttpClient(key, secret, account_type, None, is_testnet)
    \/ \E config \in Configs : DataCreate(config, "logger1")
    \/ \E config \in Configs : ExecCreate(config, "logger1")

Spec == Init /\ [][Next]_vars

\* Direct calls of get_cached_binance_http_client in a process whose environment
\* lacks some of the credential variables.
InitEnv ==
    /\ CacheInit
    /\ \E present \in EnvPresent : environ = Environment(present)
    /\ ThreadsIdle
    /\ ParserIdle

NextEnv ==
    \E key \in OptCreds, secret \in OptCreds, account_type \in BinanceAccountType,
       is_testnet \in BOOLEAN :
        GetHttpClient(key, secret, account_type, None, is_testnet)

SpecEnv == InitEnv /\ [][NextEnv]_vars

\* Direct calls that pass both credentials, the empty string among them, in the
\* same environments.
ExplicitCreds == {Some(""), Some("a"), Some("b")}

NextExplicit ==
    \E key \in ExplicitCreds, secret \in ExplicitCreds,
       account_type \in BinanceAccountType, is_testnet \in BOOLEAN :
        GetHttpClient(key, secret, account_type, None, is_testnet)

SpecExplicit == InitEnv /\ [][NextExplicit]_vars

\* The factories alone, called for every account type with explicit
\* credentials, by components holding different loggers.
FactoryConfigs ==
    {c \in AllConfigs : /\ ~c.testnet /\ ~c.us
                        /\ c.api_key \in {Some("a"), Some("a|a")} /\ c.api_secret = Some("a")
                        /\ c.base_url_http = None /\ c.base_url_ws = None
                        /\ c.instrument_provider = "load_all"}

NextFactory ==
    \/ \E config \in FactoryConfigs, logger \in Loggers : DataCreate(config, logger)
    \/ \E config \in FactoryConfigs, logger \in Loggers : ExecCreate(config, logger)

SpecFactory == Init /\ [][NextFactory]_vars

-----------------------------------------------------------------------------
(* The resolvers called on their own, and the factories called for every     *)
(* account type, network and region, with and without base-URL overrides.    *)

\* a call of _get_http_base_url
GetHttpBaseUrl(config) ==
    LET resolved == _get_http_base_url(config)
    IN  /\ ret' = [NoRet EXCEPT !.op = "_get_http_base_url", !.status = resolved.status,
                                !.url = resolved.url, !.config = config]
        /\ UNCHANGED <<HTTP_CLIENTS, http_clients, spot_lru, futures_lru, providers,
                       environ, calls>>
        /\ UNCHANGED <<threadVars, parseVars>>

\* a call of _get_ws_base_url
GetWsBaseUrl(config) ==
    LET resolved == _get_ws_base_url(config)
    IN  /\ ret' = [NoRet EXCEPT !.op = "_get_ws_base_url", !.status = resolved.status,
                                !.url = resolved.url, !.config = config]
        /\ UNCHANGED <<HTTP_CLIENTS, http_clients, spot_lru, futures_lru, providers,
                       environ, calls>>
        /\ UNCHANGED <<threadVars, parseVars>>

\* every account type, network and region; both base URLs overridden or neither
NetworkConfigs ==
    {c \in AllConfigs : /\ c.api_key = Some("a") /\ c.api_secret = Some("a")
                        /\ c.instrument_provider = "load_all"
                        /\ (c.base_url_http = None) <=> (c.base_url_ws = None)}

\* the configurations create() is called with: those of the .com region
CreateConfigs == {c \in NetworkConfigs : ~c.us}

NextNetwork ==
    \/ \E config \in NetworkConfigs : GetHttpBaseUrl(config)
    \/ \E config \in NetworkConfigs : GetWsBaseUrl(config)
    \/ \E config \in CreateConfigs : DataCreate(config, "logger1")
    \/ \E config \in CreateConfigs : ExecCreate(config, "logger1")

SpecNetwork == Init /\ [][NextNetwork]_vars

-----------------------------------------------------------------------------
(* get_cached_binance_http_client called from several threads.  The function *)
(* takes no lock, so the interpreter may switch threads between any two of   *)
(* its statements.                                                           *)

Threads == {1, 2}

NoFrame == [key |-> "", secret |-> "", client_key |-> "", client |-> 0,
            status |-> "none", result |-> 0]

\* lines 87-90: resolve the credentials, derive client_key
Enter(t, key, secret, account_type, is_testnet) ==
    /\ pc[t] = "idle"
    /\ LET k == Or(key, _get_api_key(environ, account_type, is_testnet))
           s == Or(secret, _get_api_secret(environ, account_type, is_testnet))
       IN  IF k = None \/ s = None
           THEN /\ pc' = [pc EXCEPT ![t] = "done"]
                /\ frame' = [frame EXCEPT ![t] = [NoFrame EXCEPT !.status = "KeyError"]]
           ELSE /\ pc' = [pc EXCEPT ![t] = "check"]
                /\ frame' = [frame EXCEPT ![t] =
                                [NoFrame EXCEPT !.key = k[1], !.secret = s[1],
                                                !.client_key = client_key_of(k[1], s[1])]]
    /\ UNCHANGED <<cacheVars, parseVars>>

\* line 91: if client_key not in HTTP_CLIENTS
Check(t) ==
    /\ pc[t] = "check"
    /\ pc' = [pc EXCEPT ![t] = IF NotCached(HTTP_CLIENTS, frame[t].client_key)
                               THEN "construct" ELSE "return"]
    /\ UNCHANGED <<frame, cacheVars, parseVars>>

\* lines 92-99: client = BinanceHttpClient(...)
Construct(t) ==
    /\ pc[t] = "construct"
    /\ http_clients' = Append(http_clients,
                              BinanceHttpClient(frame[t].key, frame[t].secret, None))
    /\ frame' = [frame EXCEPT ![t].client = Len(http_clients) + 1]
    /\ pc' = [pc EXCEPT ![t] = "store"]
    /\ UNCHANGED <<HTTP_CLIENTS, spot_lru, futures_lru, providers, environ, calls, ret>>
    /\ UNCHANGED parseVars

\* line 100: HTTP_CLIENTS[client_key] = client
Store(t) ==
    /\ pc[t] = "store"
    /\ HTTP_CLIENTS' = DictSet(HTTP_CLIENTS, frame[t].client_key, frame[t].client)
    /\ pc' = [pc EXCEPT ![t] = "return"]
    /\ UNCHANGED <<frame, http_clients, spot_lru, futures_lru, providers, environ, calls, ret>>
    /\ UNCHANGED parseVars

\* line 101: return HTTP_CLIENTS[client_key]
Return(t) ==
    /\ pc[t] = "return"
    /\ frame' = [frame EXCEPT ![t].result = HTTP_CLIENTS[frame[t].client_key],
                              ![t].status = "ok"]
    /\ pc' = [pc EXCEPT ![t] = "done"]
    /\ UNCHANGED <<cacheVars, parseVars>>

InitConc ==
    /\ CacheInit
    /\ \E present \in {EnvNames, {}} : environ = Environment(present)
    /\ pc = [t \in Threads |-> "idle"]
    /\ frame = [t \in Threads |-> NoFrame]
    /\ ParserIdle

NextConc ==
    \E t \in Threads :
        \/ \E key \in OptCreds, secret \in OptCreds : Enter(t, key, secret, "SPOT", FALSE)
        \/ Check(t)
        \/ Construct(t)
        \/ Store(t)
        \/ Return(t)

SpecConc == InitConc /\ [][NextConc]_vars

-----------------------------------------------------------------------------
(* Claims on the resource caches *)

\* the constructed clients that were built for the credential pair (key, secret)
ConstructedFor(key, secret) ==
    {i \in DOMAIN http_clients :
        http_clients[i].key = key /\ http_clients[i].secret = secret}

\* the constructed clients whose credentials join to client_key
ConstructedUnder(client_key) ==
    {i \in DOMAIN http_clients :
        client_key_of(http_clients[i].key, http_clients[i].secret) = client_key}

\* C1: after any sequence of get_cached_binance_http_client calls, direct or through
\* the factories, all calls with the same (key, secret) pair returned the same client,
\* BinanceHttpClient was constructed exactly once for each credential pair that was
\* asked for, and the entry each call returned is still the one in HTTP_CLIENTS.
C1_OneClientPerCredentialPair ==
    /\ \A c1 \in calls, c2 \in calls :
           (c1.key = c2.key /\ c1.secret = c2.secret) => c1.client = c2.client
    /\ \A c \in calls : Cardinality(ConstructedFor(c.key, c.secret)) = 1
    /\ \A c \in calls :
           /\ client_key_of(c.key, c.secret) \in DOMAIN HTTP_CLIENTS
           /\ HTTP_CLIENTS[client_key_of(c.key, c.secret)] = c.client

\* C2: two concurrent calls with the same credential key, under every interleaving
\* of their check, construct and store steps, return the same client instance, and
\* the constructor ran exactly once for that key.
C2_ConcurrentCallsShareOneClient ==
    \A t1 \in Threads, t2 \in Threads :
        (/\ pc[t1] = "done" /\ pc[t2] = "done"
         /\ frame[t1].status = "ok" /\ frame[t2].status = "ok"
         /\ frame[t1].client_key = frame[t2].client_key)
        => /\ frame[t1].result = frame[t2].result
           /\ Cardinality(ConstructedUnder(frame[t1].client_key)) = 1

\* C3: any two create() calls with the same account type obtain the same instrument
\* provider, so at most one provider is ever constructed per account type.  (Every
\* constructed provider was returned by the create() call that constructed it.)
C3_OneProviderPerAccountType ==
    \A i \in DOMAIN providers, j \in DOMAIN providers :
        providers[i].account_type = providers[j].account_type => i = j

\* C4: a provider entry is never evicted: a request (client, logger, account type,
\* config) that was served once is served by that same instance ever after, so no
\* two constructed providers were built for the same request.
C4_ProviderNeverEvicted ==
    \A i \in DOMAIN providers, j \in DOMAIN providers :
        (/\ providers[i].family = providers[j].family
         /\ providers[i].client = providers[j].client
         /\ providers[i].logger = providers[j].logger
         /\ providers[i].account_type = providers[j].account_type
         /\ providers[i].config = providers[j].config) => i = j

\* C6: two different (key, secret) pairs never produce the same client_key and never
\* share one cached HTTP client.
C6_ClientKeyUnambiguous ==
    \A c1 \in calls, c2 \in calls :
        (c1.key # c2.key \/ c1.secret # c2.secret)
        => /\ client_key_of(c1.key, c1.secret) # client_key_of(c2.key, c2.secret)
           /\ c1.client # c2.client

\* a credential the call needs is neither passed nor set in the environment
CredentialMissing(key, secret, account_type, is_testnet) ==
    \/ ~Truthy(key) /\ environ[ApiKeyVar(account_type, is_testnet)] = None
    \/ ~Truthy(secret) /\ environ[ApiSecretVar(account_type, is_testnet)] = None

\* C5: in every reachable state, a get_cached_binance_http_client call that lacks a
\* credential (not passed, variable not set) fails and leaves HTTP_CLIENTS and the
\* constructed clients exactly as they were; a call whose credentials are available
\* succeeds and returns the client cached under its client_key, constructing it
\* exactly when the key was not cached; a failed step changes nothing, and the
\* first successful step after a failed one returns a cached, constructed client.
C5_MissingCredentialFailsCleanly ==
    /\ [](\A key \in OptCreds, secret \in OptCreds,
             account_type \in BinanceAccountType, is_testnet \in BOOLEAN :
            LET got == get_cached_binance_http_client(
                           HTTP_CLIENTS, http_clients, environ,
                           key, secret, account_type, None, is_testnet)
            IN  IF CredentialMissing(key, secret, account_type, is_testnet)
                THEN /\ got.status = "KeyError"
                     /\ got.cache = HTTP_CLIENTS
                     /\ got.heap = http_clients
                ELSE /\ got.status = "ok"
                     /\ got.client_key \in DOMAIN got.cache
                     /\ got.cache[got.client_key] = got.client
                     /\ got.client \in DOMAIN got.heap
                     /\ got.constructed <=> got.client_key \notin DOMAIN HTTP_CLIENTS
                     /\ Len(got.heap) = Len(http_clients) + (IF got.constructed THEN 1 ELSE 0))
    /\ [][ret'.status = "KeyError" => UNCHANGED <<HTTP_CLIENTS, http_clients, calls>>]_vars
    /\ [][(ret.status = "KeyError" /\ ret'.status = "ok")
            => /\ ret'.client \in DOMAIN http_clients'
               /\ \E k \in DOMAIN HTTP_CLIENTS' : HTTP_CLIENTS'[k] = ret'.client]_vars

\* a call failed on a missing credential while clients were cached
C5_Witness ==
    /\ ret.op = "get_cached_binance_http_client"
    /\ ret.status = "KeyError"
    /\ DOMAIN HTTP_CLIENTS # {}
    /\ calls # {}

-----------------------------------------------------------------------------
(* Polymarket payloads: strings and numbers *)

\* A payload string is the sequence of its characters.
Digits == {"0", "1", "2", "3", "4", "5", "6", "7", "8", "9"}

DigitValue(c) ==
    CASE c = "0" -> 0 [] c = "1" -> 1 [] c = "2" -> 2 [] c = "3" -> 3 [] c = "4" -> 4
      [] c = "5" -> 5 [] c = "6" -> 6 [] c = "7" -> 7 [] c = "8" -> 8 [] c = "9" -> 9

RECURSIVE Pow10(_)
Pow10(n) == IF n = 0 THEN 1 ELSE 10 * Pow10(n - 1)

\* the number a sequence of digit characters writes (0 for no digits)
RECURSIVE DigitsValue(_)
DigitsValue(s) ==
    IF s = <<>> THEN 0
    ELSE 10 * DigitsValue(SubSeq(s, 1, Len(s) - 1)) + DigitValue(s[Len(s)])

\* truth value of a str: the empty string alone is falsy
StrTruthy(s) == Len(s) > 0

\* int(s) accepts a non-empty run of digits (of the characters modelled)
IntValid(s) == Len(s) > 0 /\ \A i \in DOMAIN s : s[i] \in Digits
int(s) == DigitsValue(s)

\* float(s) accepts digits with at most one "." and at least one digit
DotPlaces(s) == {i \in DOMAIN s : s[i] = "."}
FloatValid(s) ==
    /\ \A i \in DOMAIN s : s[i] \in Digits \cup {"."}
    /\ Cardinality(DotPlaces(s)) <= 1
    /\ \E i \in DOMAIN s : s[i] \in Digits

\* float(s), as the decimal it writes: mantissa / 10^places.  The binary64 that
\* float() returns lies within one part in 2^53 of this decimal; for the strings
\* modelled (at most MaxSizeLen characters) rounding it to an instrument's
\* precision gives what rounding the decimal gives.
float(s) ==
    IF DotPlaces(s) = {}
    THEN [mantissa |-> DigitsValue(s), places |-> 0]
    ELSE LET d == CHOOSE i \in DotPlaces(s) : TRUE
         IN  [mantissa |-> DigitsValue(SubSeq(s, 1, d - 1) \o SubSeq(s, d + 1, Len(s))),
              places |-> Len(s) - d]

\* millis_to_nanos
millis_to_nanos(millis) == millis * 1000000

\* instrument.make_qty / instrument.make_price: the value rounded to the
\* instrument's precision, as the integer count of 10^-precision units
Rounded(value, precision) ==
    IF value.places <= precision
    THEN value.mantissa * Pow10(precision - value.places)
    ELSE LET cut == Pow10(value.places - precision)
         IN  (2 * value.mantissa + cut) \div (2 * cut)

make_qty(instrument, value) ==
    [raw |-> Rounded(value, instrument.size_precision), precision |-> instrument.size_precision]

make_price(instrument, value) ==
    [raw |-> Rounded(value, instrument.price_precision), precision |-> instrument.price_precision]

-----------------------------------------------------------------------------
(* PolymarketUserOrder and PolymarketOpenOrder *)

NoOrderReport(error) ==
    [status |-> error, venue_order_id |-> "", expire_time |-> <<>>,
     price |-> [raw |-> 0, precision |-> 0], quantity |-> [raw |-> 0, precision |-> 0],
     filled_qty |-> [raw |-> 0, precision |-> 0], ts_accepted |-> 0, ts_last |-> 0]

\* millis_to_nanos(int(self.expiration)) if self.expiration else None
\* (None is <<>>, a time t is <<t>>)
expire_time_of(expiration) ==
    IF StrTruthy(expiration) THEN <<millis_to_nanos(int(expiration))>> ELSE <<>>

\* the fields both order parsers fill alike, in keyword order
OrderStatusFields(order, instrument, ts) ==
    IF StrTruthy(order.expiration) /\ ~IntValid(order.expiration)
    THEN NoOrderReport("ValueError(int)")
    ELSE IF ~FloatValid(order.price) \/ ~FloatValid(order.original_size)
            \/ ~FloatValid(order.size_matched)
    THEN NoOrderReport("ValueError(float)")
    ELSE [status |-> "ok",
          venue_order_id |-> order.id,
          expire_time |-> expire_time_of(order.expiration),
          price |-> make_price(instrument, float(order.price)),
          quantity |-> make_qty(instrument, float(order.original_size)),
          filled_qty |-> make_qty(instrument, float(order.size_matched)),
          ts_accepted |-> millis_to_nanos(ts),
          ts_last |-> millis_to_nanos(ts)]

\* PolymarketUserOrder.parse_to_order_status_report
UserOrder_parse_to_order_status_report(order, instrument) ==
    IF ~IntValid(order.timestamp) THEN NoOrderReport("ValueError(int)")
    ELSE OrderStatusFields(order, instrument, int(order.timestamp))

\* the outcome of a parse_to_fill_report that raised `error`
NoFillReport(error) ==
    [status |-> error, venue_order_id |-> "", trade_id |-> "", liquidity_side |-> "",
     last_qty |-> [raw |-> 0, precision |-> 0], last_px |-> [raw |-> 0, precision |-> 0],
     ts_event |-> 0]

\* PolymarketUserOrder.parse_to_fill_report
UserOrder_parse_to_fill_report(order, instrument, liquidity_side) ==
    IF ~FloatValid(order.size_matched) \/ ~FloatValid(order.price)
    THEN NoFillReport("ValueError(float)")
    ELSE IF ~IntValid(order.timestamp) THEN NoFillReport("ValueError(int)")
    ELSE [status |-> "ok",
          venue_order_id |-> order.id,
          trade_id |-> order.id,
          liquidity_side |-> liquidity_side,
          last_qty |-> make_qty(instrument, float(order.size_matched)),
          last_px |-> make_price(instrument, float(order.price)),
          ts_event |-> millis_to_nanos(int(order.timestamp))]

\* PolymarketOpenOrder.parse_to_order_status_report
OpenOrder_parse_to_order_status_report(order, instrument) ==
    OrderStatusFields(order, instrument, order.created_at)

-----------------------------------------------------------------------------
(* PolymarketUserTrade *)

\* PolymarketUserTrade.liqudity_side
liqudity_side_taker(trade) == "TAKER"

liqudity_side(trade) == IF trade.trader_side = "MAKER" THEN "MAKER" ELSE "TAKER"

\* for order in reversed(maker_orders): the first order met, from index i down,
\* whose maker_address is the given one (0: none)
RECURSIVE ScanReversed(_, _, _)
ScanReversed(maker_orders, i, maker_address) ==
    IF i = 0 THEN 0
    ELSE IF maker_orders[i].maker_address = maker_address THEN i
    ELSE ScanReversed(maker_orders, i - 1, maker_address)

\* the same scan in listing order, from index i up
RECURSIVE ScanForward(_, _, _)
ScanForward(maker_orders, i, maker_address) ==
    IF i > Len(maker_orders) THEN 0
    ELSE IF maker_orders[i].maker_address = maker_address THEN i
    ELSE ScanForward(maker_orders, i + 1, maker_address)

FirstListed(maker_orders, maker_address) == ScanForward(maker_orders, 1, maker_address)

\* the index the loop of venue_order_id returns from (0: the loop falls through)
FoundMakerOrder(maker_orders, maker_address) ==
    ScanReversed(maker_orders, Len(maker_orders), maker_address)

\* PolymarketUserTrade.venue_order_id
UserTrade_venue_order_id(trade, maker_address) ==
    IF trade.trader_side = "MAKER"
    THEN LET i == FoundMakerOrder(trade.maker_orders, maker_address)
         IN  IF i = 0
             THEN [status |-> "ValueError(maker_address not found)", value |-> ""]
             ELSE [status |-> "ok", value |-> trade.maker_orders[i].order_id]
    ELSE [status |-> "ok", value |-> trade.taker_order_id]

\* PolymarketUserTrade.parse_to_fill_report
UserTrade_parse_to_fill_report(trade, instrument, maker_address) ==
    LET venue_order_id == UserTrade_venue_order_id(trade, maker_address)
    IN  IF venue_order_id.status # "ok" THEN NoFillReport(venue_order_id.status)
        ELSE IF ~FloatValid(trade.size) \/ ~FloatValid(trade.price)
        THEN NoFillReport("ValueError(float)")
        ELSE IF ~IntValid(trade.match_time) THEN NoFillReport("ValueError(int)")
        ELSE [status |-> "ok",
              venue_order_id |-> venue_order_id.value,
              trade_id |-> trade.id,
              liquidity_side |-> liqudity_side(trade),
              last_qty |-> make_qty(instrument, float(trade.size)),
              last_px |-> make_price(instrument, float(trade.price)),
              ts_event |-> millis_to_nanos(int(trade.match_time))]

-----------------------------------------------------------------------------
(* Payloads put to the parsers *)

\* most maker sub-orders listed in a trade payload
MaxMakerOrders == 3
\* most characters of an expiration field
MaxDigits == 2
\* most characters of a size field
MaxSizeLen == 3

SeqsUpTo(S, n) == UNION {[1..k -> S] : k \in 0..n}

PolymarketLiquiditySide == {"MAKER", "TAKER"}
MakerAddresses == {"0xA", "0xB"}
OrderIds == {"order1", "order2", "order3"}
MakerOrders == [maker_address : MakerAddresses, order_id : OrderIds]

Instruments == {[price_precision |-> 2, size_precision |-> 2],
                [price_precision |-> 1, size_precision |-> 0]}

Trades ==
    [kind : {"trade"}, id : {"trade1"}, trader_side : PolymarketLiquiditySide,
     maker_orders : SeqsUpTo(MakerOrders, MaxMakerOrders),
     taker_order_id : {"taker1"},
     size : {<<"2", ".", "5">>, <<".">>}, price : {<<"0", ".", "5">>},
     match_time : {<<"1">>},
     instrument : {[price_precision |-> 2, size_precision |-> 2]}]

UserOrders ==
    [kind : {"order"}, id : {"order1"},
     expiration : SeqsUpTo({"0", "5"}, MaxDigits),
     original_size : SeqsUpTo({"5", "."}, MaxSizeLen),
     size_matched : SeqsUpTo({"5", "."}, MaxSizeLen),
     price : {<<"0", ".", "5">>}, timestamp : {<<"1">>}, created_at : {0},
     instrument : Instruments]

OpenOrders ==
    [kind : {"open_order"}, id : {"order1"},
     expiration : SeqsUpTo({"0", "5"}, MaxDigits),
     original_size : SeqsUpTo({"5", "."}, MaxSizeLen),
     size_matched : SeqsUpTo({"5", "."}, MaxSizeLen),
     price : {<<"0", ".", "5">>}, timestamp : {<<>>}, created_at : {1},
     instrument : Instruments]

CacheIdle == CacheInit /\ environ = Environment({})

-----------------------------------------------------------------------------
(* The trade parser applied to one payload *)

ParseUserTrade ==
    /\ payload.kind = "trade"
    /\ report = NoReport
    /\ report' = UserTrade_parse_to_fill_report(payload, payload.instrument, local_address)
    /\ UNCHANGED <<payload, local_address, fills, cacheVars, threadVars>>

InitTrade ==
    /\ payload \in Trades
    /\ local_address \in MakerAddresses
    /\ report = NoReport
    /\ fills = <<>>
    /\ CacheIdle
    /\ ThreadsIdle

NextTrade == ParseUserTrade

SpecTrade == InitTrade /\ [][NextTrade]_vars

-----------------------------------------------------------------------------
(* The order parsers applied to one payload *)

ParseUserOrder ==
    /\ payload.kind = "order"
    /\ report = NoReport
    /\ report' = UserOrder_parse_to_order_status_report(payload, payload.instrument)
    /\ UNCHANGED <<payload, local_address, fills, cacheVars, threadVars>>

ParseOpenOrder ==
    /\ payload.kind = "open_order"
    /\ report = NoReport
    /\ report' = OpenOrder_parse_to_order_status_report(payload, payload.instrument)
    /\ UNCHANGED <<payload, local_address, fills, cacheVars, threadVars>>

InitOrder ==
    /\ payload \in UserOrders \cup OpenOrders
    /\ local_address = ""
    /\ report = NoReport
    /\ fills = <<>>
    /\ CacheIdle
    /\ ThreadsIdle

NextOrder == ParseUserOrder \/ ParseOpenOrder

SpecOrder == InitOrder /\ [][NextOrder]_vars

-----------------------------------------------------------------------------
(* The trade parser applied to a payload object whose trader_side was not    *)
(* validated against PolymarketLiquiditySide (a msgspec.Struct checks no     *)
(* field type when it is constructed rather than decoded)                    *)

UnvalidatedTrades == Trades \cup {[t EXCEPT !.trader_side = "OTHER"] : t \in Trades}

InitVocabulary ==
    /\ payload \in UnvalidatedTrades
    /\ local_address \in MakerAddresses
    /\ report = NoReport
    /\ fills = <<>>
    /\ CacheIdle
    /\ ThreadsIdle

SpecVocabulary == InitVocabulary /\ [][NextTrade]_vars

-----------------------------------------------------------------------------
(* A feed of trade payloads and order updates, each parsed to a FillReport   *)

\* most FillReports followed
MaxFills == 3

FeedTrades ==
    [kind : {"trade"}, id : {"trade1", "trade2"}, trader_side : PolymarketLiquiditySide,
     maker_orders : {<<[maker_address |-> "0xA", order_id |-> "order1"]>>},
     taker_order_id : {"taker1"},
     size : {<<"5">>}, price : {<<"0", ".", "5">>},
     match_time : {<<"1">>},
     instrument : {[price_precision |-> 2, size_precision |-> 2]}]

\* updates of one order as it fills: size_matched is the cumulative matched size
FeedOrders ==
    [kind : {"order"}, id : {"order1"},
     expiration : {<<"0">>},
     original_size : {<<"5", "5">>},
     size_matched : {<<"5">>, <<"5", "5">>},
     price : {<<"0", ".", "5">>}, timestamp : {<<"1">>, <<"2">>}, created_at : {0},
     instrument : {[price_precision |-> 2, size_precision |-> 2]}]

Followed(made) ==
    IF made.status = "ok" THEN Append(fills, [payload |-> payload', report |-> made])
    ELSE fills

\* a trade payload arrives and is parsed
DeliverTrade(trade) ==
    /\ Len(fills) < MaxFills
    /\ payload' = trade
    /\ report' = UserTrade_parse_to_fill_report(trade, trade.instrument, local_address)
    /\ fills' = Followed(report')
    /\ UNCHANGED <<local_address, cacheVars, threadVars>>

\* an order update arrives and is parsed; the venue never lowers size_matched
DeliverOrderUpdate(order) ==
    /\ Len(fills) < MaxFills
    /\ \A i \in DOMAIN fills :
          (fills[i].payload.kind = "order" /\ fills[i].payload.id = order.id)
          => /\ int(fills[i].payload.timestamp) <= int(order.timestamp)
             /\ float(fills[i].payload.size_matched).mantissa
                   <= float(order.size_matched).mantissa
    /\ payload' = order
    /\ report' = UserOrder_parse_to_fill_report(order, order.instrument, "MAKER")
    /\ fills' = Followed(report')
    /\ UNCHANGED <<local_address, cacheVars, threadVars>>

InitFills ==
    /\ payload = NoPayload
    /\ local_address = "0xA"
    /\ report = NoReport
    /\ fills = <<>>
    /\ CacheIdle
    /\ ThreadsIdle

NextFills ==
    \/ \E trade \in FeedTrades : DeliverTrade(trade)
    \/ \E order \in FeedOrders : DeliverOrderUpdate(order)

SpecFills == InitFills /\ [][NextFills]_vars

-----------------------------------------------------------------------------
(* Claims on the parsers *)

\* the places of the maker sub-orders of the payload that carry the local address
Matches == {i \in DOMAIN payload.maker_orders :
               payload.maker_orders[i].maker_address = local_address}

\* C7: once a trade payload is parsed: a taker payload gives liquidity side TAKER and
\* venue_order_id = taker_order_id; a maker payload with a sub-order of the local
\* address gives liquidity side MAKER and the order_id of such a sub-order; a maker
\* payload with no such sub-order fails with the maker-order-not-found error and
\* gives no FillReport.
C7_TradeIdentityResolution ==
    (payload.kind = "trade" /\ report # NoReport) =>
        /\ (payload.trader_side = "TAKER" /\ report.status = "ok") =>
               /\ report.liquidity_side = "TAKER"
               /\ report.venue_order_id = payload.taker_order_id
        /\ (payload.trader_side = "MAKER" /\ Matches # {} /\ report.status = "ok") =>
               /\ report.liquidity_side = "MAKER"
               /\ \E i \in Matches : report.venue_order_id = payload.maker_orders[i].order_id
        /\ (payload.trader_side = "MAKER" /\ Matches = {}) =>
               report.status = "ValueError(maker_address not found)"
        /\ (payload.trader_side = "TAKER" \/ Matches # {}) =>
               (report.status = "ok" <=>
                    (FloatValid(payload.size) /\ FloatValid(payload.price)
                     /\ IntValid(payload.match_time)))

\* a maker payload resolved to a listed sub-order
C7_Witness ==
    /\ payload.kind = "trade" /\ report # NoReport /\ report.status = "ok"
    /\ payload.trader_side = "MAKER"
    /\ Len(payload.maker_orders) >= 2
    /\ \E i \in DOMAIN payload.maker_orders : i \notin Matches

\* C8: when several maker sub-orders carry the local address, venue_order_id is the
\* order_id of the one listed last.
C8_LastListedMakerOrder ==
    (payload.kind = "trade" /\ report # NoReport /\ payload.trader_side = "MAKER"
     /\ Matches # {} /\ report.status = "ok") =>
        LET last == CHOOSE i \in Matches : \A j \in Matches : j <= i
        IN  report.venue_order_id = payload.maker_orders[last].order_id

\* two sub-orders of the local address with different ids, and another listed after
C8_Witness ==
    /\ payload.kind = "trade" /\ report # NoReport /\ report.status = "ok"
    /\ payload.trader_side = "MAKER"
    /\ \E i \in Matches, j \in Matches :
           /\ i < j
           /\ payload.maker_orders[i].order_id # payload.maker_orders[j].order_id
           /\ \E k \in DOMAIN payload.maker_orders : k > j /\ k \notin Matches

\* C9: in the OrderStatusReport of both order parsers, expire_time is present only
\* if the expiration field is nonzero; expiration "0" gives expire_time None.
C9_ExpiryOnlyIfNonzero ==
    (payload.kind \in {"order", "open_order"} /\ report # NoReport /\ report.status = "ok") =>
        (report.expire_time # <<>> => int(payload.expiration) # 0)

\* C10: the OrderStatusReport of an order update has filled_qty <= quantity.
C10_FilledWithinQuantity ==
    (payload.kind = "order" /\ report # NoReport /\ report.status = "ok") =>
        report.filled_qty.raw <= report.quantity.raw

-----------------------------------------------------------------------------
(* Claims on the venue/network resolver and the factories *)

ResolverOps == {"_get_http_base_url", "_get_ws_base_url"}
CreateOps == {"BinanceLiveDataClientFactory.create", "BinanceLiveExecClientFactory.create"}

\* the outcome of the resolver `op` for `config`
ResolverOf(op, config) ==
    IF op = "_get_http_base_url" THEN _get_http_base_url(config) ELSE _get_ws_base_url(config)

\* C11: for every account type, testnet flag and us flag, a resolver either yields
\* one base URL or fails with the unsupported-combination error (ValueError); the
\* WebSocket resolver fails so for (FUTURES_COIN, testnet) under either us flag, and
\* no other combination fails.
C11_ResolvesOrUnsupported ==
    (ret.op \in ResolverOps /\ ret.config.account_type \in BinanceAccountType)
    => /\ \/ ret.status = "ok" /\ ret.url # ""
          \/ ret.status = "ValueError" /\ ret.url = ""
       /\ ret.status = "ValueError"
            <=> /\ ret.op = "_get_ws_base_url"
                /\ ret.config.account_type = "FUTURES_COIN"
                /\ ret.config.testnet

C11_Witness ==
    /\ ret.op = "_get_ws_base_url"
    /\ ret.config.account_type = "FUTURES_COIN" /\ ret.config.testnet /\ ret.config.us
    /\ ret.status = "ValueError"

\* C12: on the test network the us flag does not matter: for every account type the
\* outcome of each resolver (URL or error) is the same for us=true and us=false.
C12_TestnetBeforeRegion ==
    (ret.op \in ResolverOps /\ ret.config.testnet)
    => LET other == ResolverOf(ret.op, [ret.config EXCEPT !.us = ~@])
       IN  other.status = ret.status /\ other.url = ret.url

C12_Witness ==
    /\ ret.op = "_get_ws_base_url"
    /\ ret.config.testnet /\ ret.config.us
    /\ ret.status = "ok"

\* C13 as stated: on the test network SPOT and MARGIN share one HTTP and one
\* WebSocket base URL, and the HTTP base URLs of FUTURES_USDT, of FUTURES_COIN and
\* of spot/margin are three different ones.
C13_TestnetHostPerSubMarket ==
    (ret.op \in ResolverOps /\ ret.config.testnet /\ ret.status = "ok")
    => \A b \in BinanceAccountType \ {ret.config.account_type} :
          LET other == ResolverOf(ret.op, [ret.config EXCEPT !.account_type = b])
          IN  IF {ret.config.account_type, b} = {"SPOT", "MARGIN"}
              THEN other.status = "ok" /\ other.url = ret.url
              ELSE ret.op = "_get_http_base_url" => other.url # ret.url

\* C13 amended: on the test network SPOT and MARGIN share one HTTP and one
\* WebSocket base URL; FUTURES_USDT and FUTURES_COIN share one HTTP base URL, and
\* it differs from the spot/margin one.
C13_TestnetHostPerFamily ==
    (ret.op \in ResolverOps /\ ret.config.testnet /\ ret.status = "ok")
    => \A b \in BinanceAccountType \ {ret.config.account_type} :
          LET other == ResolverOf(ret.op, [ret.config EXCEPT !.account_type = b])
              a_spot == ret.config.account_type \in {"SPOT", "MARGIN"}
              b_spot == b \in {"SPOT", "MARGIN"}
          IN  /\ (a_spot /\ b_spot) => (other.status = "ok" /\ other.url = ret.url)
              /\ ret.op = "_get_http_base_url"
                   => /\ other.status = "ok"
                      /\ (a_spot = b_spot) <=> (other.url = ret.url)

C13_Witness ==
    /\ ret.op = "_get_http_base_url"
    /\ ret.config.testnet /\ ret.config.account_type = "FUTURES_COIN"
    /\ ret.status = "ok"

\* the hosts of the claim, per account type
HttpHost(account_type) ==
    CASE account_type = "SPOT" -> "api"
      [] account_type = "MARGIN" -> "sapi"
      [] account_type = "FUTURES_USDT" -> "fapi"
      [] account_type = "FUTURES_COIN" -> "dapi"

LiveTemplates ==
    {<<"https://" \o HttpHost(a) \o ".binance.", "">> : a \in BinanceAccountType}
    \cup {<<"wss://stream.binance.", ":9443">>, <<"wss://fstream.binance.", "">>,
          <<"wss://dstream.binance.", "">>}

\* C14: off the test network, the URLs a resolver yields for us=true and us=false
\* are one template filled with "us" and with "com"; the four account types have
\* the four HTTP hosts api, sapi, fapi and dapi; (SPOT, live, not us) has
\* https://api.binance.com.
C14_LiveRegionTemplate ==
    (ret.op \in ResolverOps /\ ~ret.config.testnet
       /\ ret.config.account_type \in BinanceAccountType)
    => LET other == ResolverOf(ret.op, [ret.config EXCEPT !.us = ~@])
           tld == IF ret.config.us THEN "us" ELSE "com"
           other_tld == IF ret.config.us THEN "com" ELSE "us"
       IN  /\ ret.status = "ok" /\ other.status = "ok"
           /\ \E t \in LiveTemplates :
                 /\ ret.url = t[1] \o tld \o t[2]
                 /\ other.url = t[1] \o other_tld \o t[2]
           /\ ret.op = "_get_http_base_url"
                => /\ ret.url = "https://" \o HttpHost(ret.config.account_type)
                                   \o ".binance." \o tld
                   /\ \A b \in BinanceAccountType \ {ret.config.account_type} :
                         _get_http_base_url([ret.config EXCEPT !.account_type = b]).url
                             # ret.url
           /\ (ret.op = "_get_http_base_url" /\ ret.config.account_type = "SPOT"
                 /\ ~ret.config.us)
                => ret.url = "https://api.binance.com"

C14_Witness ==
    /\ ret.op = "_get_http_base_url"
    /\ ~ret.config.testnet /\ ret.config.us /\ ret.config.account_type = "MARGIN"
    /\ ret.url = "https://sapi.binance.us"

\* C15: a create() whose config supplies both base_url_http and base_url_ws does
\* not depend on the resolver: it never fails with the resolver's errors, and the
\* client it produces uses the supplied URLs.
C15_OverridesBypassResolver ==
    (ret.op \in CreateOps /\ ret.config.base_url_http # None
       /\ ret.config.base_url_ws # None)
    => /\ ret.status \notin {"ValueError", "RuntimeError"}
       /\ ret.status = "ok"
            => /\ ret.base_url_ws = ret.config.base_url_ws
               /\ http_clients[ret.client].base_url = ret.config.base_url_http

\* C16: a get_cached_binance_http_client call that is passed a key and a secret
\* (any values other than None) does not read the environment, does not fail on a
\* missing credential, and caches its client under the key joined from exactly the
\* passed key and secret.
C16_ExplicitPairBypassesEnvironment ==
    (ret.op = "get_cached_binance_http_client" /\ ret.key # None /\ ret.secret # None)
    => /\ ret.env_read = {}
       /\ ret.status = "ok"
       /\ LET client_key == client_key_of(ret.key[1], ret.secret[1])
          IN  /\ client_key \in DOMAIN HTTP_CLIENTS
              /\ HTTP_CLIENTS[client_key] = ret.client

\* C17: both factories return the spot variant wired to a spot instrument provider
\* for SPOT and MARGIN, the futures variant wired to a futures instrument provider
\* for FUTURES_USDT and FUTURES_COIN, and the client carries config.account_type.
C17_TwoWayVariant ==
    (ret.op \in CreateOps /\ ret.status = "ok")
    => LET spot == ret.config.account_type \in {"SPOT", "MARGIN"}
           futures == ret.config.account_type \in {"FUTURES_USDT", "FUTURES_COIN"}
           kind == IF ret.op = "BinanceLiveDataClientFactory.create"
                   THEN "DataClient" ELSE "ExecutionClient"
       IN  /\ spot \/ futures
           /\ ret.variant = (IF spot THEN "BinanceSpot" ELSE "BinanceFutures") \o kind
           /\ ret.provider \in DOMAIN providers
           /\ providers[ret.provider].family = (IF spot THEN "spot" ELSE "futures")
           /\ providers[ret.provider].account_type = ret.config.account_type
           /\ ret.account_type = ret.config.account_type

C17_Witness ==
    /\ ret.op = "BinanceLiveExecClientFactory.create" /\ ret.status = "ok"
    /\ ret.config.account_type = "MARGIN"
    /\ ret.variant = "BinanceSpotExecutionClient"

-----------------------------------------------------------------------------
(* Claims on the vocabulary, the fill identity and the numeric conversion *)

SameExecution(p, q) ==
    /\ p.kind = q.kind
    /\ p.id = q.id
    /\ p.kind = "order" => float(p.size_matched) = float(q.size_matched)

\* C19: the FillReports of a redelivered payload carry one trade_id, and the
\* FillReports of two different executions never carry the same trade_id, for
\* trade payloads and for successive updates of one order as size_matched grows.
C19_TradeIdIdentifiesFill ==
    \A i \in DOMAIN fills, j \in DOMAIN fills :
        SameExecution(fills[i].payload, fills[j].payload)
            <=> fills[i].report.trade_id = fills[j].report.trade_id

\* the fixed value writes exactly the number the string writes
Exact(fixed, s) ==
    LET value == float(s)
        places == IF value.places > fixed.precision THEN value.places ELSE fixed.precision
    IN  fixed.raw * Pow10(places - fixed.precision)
            = value.mantissa * Pow10(places - value.places)

\* C20: price, quantity and filled_qty of every report the order parsers make are
\* exactly the numbers the payload's strings write, at the instrument's precision.
C20_ExactDecimalConversion ==
    (payload.kind \in {"order", "open_order"} /\ report # NoReport /\ report.status = "ok")
    => /\ Exact(report.price, payload.price)
       /\ Exact(report.quantity, payload.original_size)
       /\ Exact(report.filled_qty, payload.size_matched)

-----------------------------------------------------------------------------
(* Claims on what a created client is wired to *)

\* C21: after any sequence of create() calls, the HTTP client of a returned client
\* has the base URL of that call's config: config.base_url_http if given, else the
\* URL resolved for its account type, testnet and us flags.
C21_ClientHasOwnBaseUrl ==
    (ret.op \in CreateOps /\ ret.status = "ok")
    => http_clients[ret.client].base_url
         = (IF ret.config.base_url_http # None
            THEN ret.config.base_url_http
            ELSE Some(_get_http_base_url(ret.config).url))

\* the two variables of one credential source
CredentialSources ==
    {{prefix \o "API_KEY", prefix \o "API_SECRET"} :
        prefix \in {"BINANCE_", "BINANCE_FUTURES_", "BINANCE_TESTNET_",
                    "BINANCE_FUTURES_TESTNET_"}}

\* C25: a call without credentials reads its key and its secret from the two
\* variables of one source; calls of the same market family (spot and margin, or
\* the two futures) and the same network read the same source, and calls of
\* another family or network read a different one.
C25_CredentialSourcePerFamilyAndNetwork ==
    (ret.op = "get_cached_binance_http_client" /\ ret.key = None /\ ret.secret = None
       /\ ret.status = "ok")
    => /\ ret.env_read \in CredentialSources
       /\ \A b \in BinanceAccountType, t \in BOOLEAN :
             LET same_family == (b \in {"SPOT", "MARGIN"})
                                  <=> (ret.config.account_type \in {"SPOT", "MARGIN"})
             IN  (same_family /\ t = ret.config.testnet)
                   <=> ({ApiKeyVar(b, t), ApiSecretVar(b, t)} = ret.env_read)

C25_Witness ==
    /\ ret.op = "get_cached_binance_http_client" /\ ret.key = None /\ ret.secret = None
    /\ ret.status = "ok"
    /\ ret.config.account_type = "FUTURES_COIN" /\ ret.config.testnet
    /\ ret.env_read = {"BINANCE_FUTURES_TESTNET_API_KEY", "BINANCE_FUTURES_TESTNET_API_SECRET"}

\* C22: a create() that fails in URL resolution (ValueError of an unsupported
\* combination, RuntimeError of an invalid account type) has touched neither
\* registry: HTTP_CLIENTS, the constructed clients, both provider caches and the
\* constructed providers are as before the call.
C22_FailedResolutionTouchesNothing ==
    [][(ret'.op \in CreateOps /\ ret'.status \in {"ValueError", "RuntimeError"})
         => UNCHANGED <<HTTP_CLIENTS, http_clients, spot_lru, futures_lru, providers,
                        calls>>]_vars

\* a create() failed in URL resolution while both registries held entries
C22_Witness ==
    /\ ret.op \in CreateOps /\ ret.status = "ValueError"
    /\ ret.config.account_type = "FUTURES_COIN" /\ ret.config.testnet
    /\ DOMAIN HTTP_CLIENTS # {}
    /\ Len(futures_lru) > 0

\* create() of the factory other than the one named `op`
OtherFactory(op, config, logger) ==
    IF op = "BinanceLiveDataClientFactory.create"
    THEN BinanceLiveExecClientFactory_create(config, logger)
    ELSE BinanceLiveDataClientFactory_create(config, logger)

\* C23: from every state both factories decide alike for equal configs and logger
\* (same outcome, same credentials and cache key, same WebSocket URL, same HTTP
\* client and provider, same registries afterwards); and once one factory has
\* returned a client, the other factory called with the equal config returns the
\* same HTTP client and the same provider and constructs neither.
C23_FactoriesDecideAlike ==
    /\ \A config \in CreateConfigs :
          LET d == BinanceLiveDataClientFactory_create(config, "logger1")
              e == BinanceLiveExecClientFactory_create(config, "logger1")
          IN  /\ d.status = e.status
              /\ d.key = e.key /\ d.secret = e.secret
              /\ d.base_url_ws = e.base_url_ws
              /\ d.client = e.client /\ d.provider = e.provider
              /\ d.cache = e.cache /\ d.heap = e.heap
              /\ d.spot_lru = e.spot_lru /\ d.futures_lru = e.futures_lru
              /\ d.providers = e.providers
    /\ (ret.op \in CreateOps /\ ret.status = "ok")
       => LET other == OtherFactory(ret.op, ret.config, "logger1")
          IN  /\ other.status = "ok"
              /\ other.client = ret.client /\ other.provider = ret.provider
              /\ other.base_url_ws = ret.base_url_ws
              /\ other.cache = HTTP_CLIENTS /\ other.heap = http_clients
              /\ other.providers = providers

\* the data factory has returned a margin client after earlier calls
C23_Witness ==
    /\ ret.op = "BinanceLiveDataClientFactory.create" /\ ret.status = "ok"
    /\ ret.config.account_type = "MARGIN"
    /\ Len(providers) >= 2
    /\ BinanceLiveExecClientFactory_create(ret.config, "logger1").provider = ret.provider

\* C24: the instrument provider of every client create() returns was constructed
\* with the HTTP client that the returned client uses.
C24_ProviderBoundToOwnClient ==
    (ret.op \in CreateOps /\ ret.status = "ok")
    => /\ ret.provider \in DOMAIN providers
       /\ providers[ret.provider].client = ret.client

\* a client was returned for a second credential pair after a provider of the same
\* account type was made for the first
C24_Witness ==
    /\ ret.op \in CreateOps /\ ret.status = "ok"
    /\ ret.client = 2
    /\ providers[ret.provider].client = 2
    /\ \E i \in DOMAIN providers :
          /\ providers[i].client = 1
          /\ providers[i].account_type = ret.config.account_type
          /\ providers[i].logger = providers[ret.provider].logger

====
